---- MODULE Spec2Model ----
(***************************************************************************)
(* embeddingdb.js (src/index.js): the tiled incremental query scheduler    *)
(* queryToTiledDist, its two kernel wrappers queryDist and distTopK, and   *)
(* the codebook flattener flattenCodebook.                                 *)
(*                                                                         *)
(* One scan is modelled at the granularity of its await points and of the  *)
(* loop tests between them.  Array indices are 0-based in the source and   *)
(* 1-based here: source index x is sequence position x + 1.                *)
(* The timing log (timingStrings) only feeds the text of an event payload  *)
(* and never a branch, so it is not carried in the state.                  *)
(***************************************************************************)
EXTENDS Integers, Sequences, FiniteSets, TLC

\* ------------------------------------------------------------------ bounds
MaxShards == 2        \* shards in the list handed to a scan
MaxChunks == 3        \* chunks in the whole list
MaxTime == 4          \* last reading of the clock
MaxSubspaces == 3     \* codebooks handed to the flattener: groups
MaxCentroids == 3     \*   centroids per group
MaxSubDim == 2        \*   floats per centroid
MaxPairChunks == 2    \* chunks in the list two concurrent scans share
MaxPairTime == 2      \* last reading of the clock two concurrent scans share

\* ------------------------------------------------------- inputs (small sets)
ChunkSizes == {1, 2}          \* values of env.chunkSize
TickBudgets == {0, 1}         \* values of env.maxTick
KernelErrors == {"KernelExecutionError", "ShapeMismatchError"}
TopKErrors == {"KernelExecutionError", "SizeMismatchError"}

VARIABLES
  codebk,            \* argument codebk: the nested codebook
  codebkflat,        \* argument codebkflat: flattenCodebook(codebk)
  query,             \* argument query
  embeddings,        \* argument embeddings: the shard list
  dists,             \* argument dists: the distance array, mutated in place
  firstLetters,      \* argument firstLetters: the facet column
  firstLetterInt,    \* argument firstLetterInt: the facet value filtered on
  k,                 \* argument k
  embeddingCounter,  \* argument embeddingCounter, the outer loop's cursor
  env,               \* the module-level env object {maxTick, chunkSize}
  cont,              \* what continueFn() returns when called now
  now,               \* what Date.now() returns when called now
  pc,                \* where the scan stands
  i,                 \* the inner loop's cursor
  lastPaint,         \* local lastPaint
  distTime,          \* local distTime of the current chunk
  topk,              \* the last top-k result computed inside the loop
  events,            \* what intermediateValueFn has been called with, in order
  error,             \* the rejection the caller receives ("none": none)
  hist,              \* history of the scan, read only by the properties
  peer               \* a second scan, suspended at an await (NoPeer: none)

vars == << codebk, codebkflat, query, embeddings, dists, firstLetters,
           firstLetterInt, k, embeddingCounter, env, cont, now, pc, i,
           lastPaint, distTime, topk, events, error, hist, peer >>

\* What no step of the running scan changes: the arguments it only reads,
\* env, and the state of a suspended scan.
args == << codebk, codebkflat, query, embeddings, firstLetters,
           firstLetterInt, k, env, peer >>

\* ------------------------------------------------------------ float32
\* Float32Array stores every element rounded to single precision.  Numbers
\* are integers here: exact up to 2^24, and between 2^24 and 2^25 rounded
\* to the nearest even integer, ties to the even mantissa.
F32Exact == 2^24

Fround(v) ==
  IF v <= F32Exact
    THEN v
    ELSE LET lo == (v \div 2) * 2
         IN  IF v = lo THEN v
             ELSE IF (lo \div 2) % 2 = 0 THEN lo ELSE lo + 2

\* ------------------------------------------------------ flattenCodebook
\* FlatElement with the centroid index running fastest.
FlatElementCentroidInnermost(cb, x) ==
  LET nc == Len(cb[1])
      sd == Len(cb[1][1])
  IN  cb[((x \div nc) \div sd) + 1][(x % nc) + 1][((x \div nc) % sd) + 1]

\* What Float32Array.from stores for an element the mapping function returns
\* undefined for: NaN, a value that is none of the model's numbers.
NaN == 0 - 1

\* Element x of the buffer, 0-based, as the mapping function computes it:
\* codebk[floor(x / nc / sd)][floor(x / sd) % nc][x % sd], with nc and sd
\* read off codebk[0].  Reading past the end of a centroid gives undefined.
FlatElement(cb, x) ==
  LET nc == Len(cb[1])
      sd == Len(cb[1][1])
      s == ((x \div nc) \div sd) + 1
      c == ((x \div sd) % nc) + 1
      d == (x % sd) + 1
  IN  IF d <= Len(cb[s][c]) THEN cb[s][c][d] ELSE NaN

\* Whether the mapping function throws: codebk[s][c] is undefined for a
\* group with fewer centroids than codebk[0], and indexing undefined is a
\* TypeError.
FlattenThrows(cb) ==
  LET nc == Len(cb[1])
      sd == Len(cb[1][1])
  IN  \E x \in 0..(Len(cb) * nc * sd - 1) :
        ((x \div sd) % nc) + 1 > Len(cb[((x \div nc) \div sd) + 1])

flattenCodebook(cb) ==
  [p \in 1..(Len(cb) * Len(cb[1]) * Len(cb[1][1])) |->
      Fround(FlatElement(cb, p - 1))]

\* ------------------------------------------------------------- kernels
RECURSIVE SumSeq(_)
\* The sum of a sequence of numbers.
SumSeq(q) == IF q = << >> THEN 0 ELSE q[1] + SumSeq(Tail(q))

Square(x) == x * x

\* The Distance Kernel: for item j of the tile, the sum over the subspaces of
\* the squared distance between the query's sub-vector and the centroid the
\* item's code selects in the flattened codebook.
PQDistance(q, flat, shape, tile, j) ==
  LET ns == shape[1]
      nc == shape[2]
      sd == shape[3]
      sub(s) == LET code == tile[j * ns + s + 1]
                IN  SumSeq([d \in 1..sd |->
                              Square(q[s * sd + d]
                                     - flat[(s * nc + code) * sd + d])])
  IN  SumSeq([s \in 1..ns |-> sub(s - 1)])

\* queryDist: one run of the distance session over a tile of
\* embeddingTensorShape[0] items; the output's data, a Float32Array.
queryDist(q, flat, shape, tile, embeddingTensorShape) ==
  [p \in 1..embeddingTensorShape[1] |->
      Fround(PQDistance(q, flat, shape, tile, p - 1))]

\* Whether index a comes before index b in ascending distance, ties by index.
Before(d, a, b) == d[a] < d[b] \/ (d[a] = d[b] /\ a < b)

RECURSIVE Smallest(_, _, _)
\* The n first members of cand in ascending distance, as <<index, distance>>
\* pairs with 0-based indices.
Smallest(d, cand, n) ==
  IF n <= 0 \/ cand = {} THEN << >>
  ELSE LET m == CHOOSE a \in cand : \A b \in cand \ {a} : Before(d, a, b)
       IN  << << m - 1, d[m] >> >> \o Smallest(d, cand \ {m}, n - 1)

\* The Filtered Top-K Engine: the kk smallest distances among the items
\* whose facet value is filterValue.
FilteredTopKAsc(d, filterColumn, filterValue, kk) ==
  Smallest(d, {a \in 1..Len(d) : filterColumn[a] = filterValue}, kk)

\* distTopK: one run of the top-k session; k travels as a uint8 tensor.
distTopK(d, filterColumn, filterValue, kk) ==
  FilteredTopKAsc(d, filterColumn, filterValue, kk % 256)

\* ------------------------------------------------------- scan: helpers
Shard == embeddings[embeddingCounter + 1]

NumSubspaces == Len(codebk)

\* codebookshape
CodebookShape == << Len(codebk), Len(codebk[1]), Len(codebk[1][1]) >>

\* InShardAt letting in whole chunks only: the tail of a shard whose item
\* count is no multiple of chunkSize is left out.
InShardAtWholeChunks(sh, ii) ==
  (ii + env.chunkSize) * NumSubspaces <= sh.len

\* The inner loop's bound test: i < embeddingData.length / codebk.length
InShardAt(sh, ii) == ii * NumSubspaces < sh.len

InShard == InShardAt(Shard, i)

\* startEmbeddingPosition and embeddingTileLength
TileStart(ii) == ii * NumSubspaces
TileLength == env.chunkSize * NumSubspaces

\* new Uint8Array(buffer, start, length) throws a RangeError when the tile
\* runs past the end of the underlying buffer.
TileFits == TileStart(i) + TileLength <= Len(Shard.buf)

EmbeddingTile(sh, ii) == [p \in 1..TileLength |-> sh.buf[TileStart(ii) + p]]

DistTile(sh, ii) ==
  queryDist(query, codebkflat, CodebookShape, EmbeddingTile(sh, ii),
            << env.chunkSize, NumSubspaces >>)

\* WriteBase without the shard's offset.
WriteBaseInShard(sh, ii) == ii

\* The first index the chunk writes: embeddingOffset + i
WriteBase(sh, ii) == sh.offset + ii

\* Whether 0-based index x is one the chunk writes: embeddingOffset + i + j
\* for a j in 0 .. chunkSize - 1.
InChunk(x, sh, ii) ==
  x >= WriteBase(sh, ii) /\ x < WriteBase(sh, ii) + env.chunkSize

\* The inner j loop: dists[embeddingOffset + i + j] = distTile[j].  dists is
\* a Float32Array: a write past its end is dropped.
WriteChunk(d, sh, ii) ==
  [p \in 1..Len(d) |->
      IF InChunk(p - 1, sh, ii)
        THEN DistTile(sh, ii)[p - WriteBase(sh, ii)]
        ELSE d[p]]

\* WrittenDists with the j loop stopping one entry short.
WrittenDistsOneShort ==
  [p \in 1..Len(dists) |->
      IF InChunk(p - 1, Shard, i) /\ InChunk(p, Shard, i)
        THEN DistTile(Shard, i)[p - WriteBase(Shard, i)]
        ELSE dists[p]]

WrittenDists == WriteChunk(dists, Shard, i)

\* The test that gates the in-loop top-k, on the distTime just read.
FirstChunk == i = 0 /\ embeddingCounter = 0
TopKDue(t) == FirstChunk \/ t - lastPaint > env.maxTick

Emit(e) == events' = Append(events, e)

DistanceUpdate == [kind |-> "dist", done |-> hist.kernelCalls, topk |-> << >>]
TopKUpdate(t) == [kind |-> "topk", done |-> hist.kernelCalls, topk |-> t]
FinalUpdate(t) == [kind |-> "final", done |-> hist.kernelCalls, topk |-> t]

\* History: how many times each index of the distance array was written.
CountWrites ==
  [p \in 1..Len(hist.written) |->
      IF InChunk(p - 1, Shard, i)
        THEN hist.written[p] + 1
        ELSE hist.written[p]]

\* ---------------------------------------------------------- scan: inputs
\* The data of a query: a rectangular codebook (1 subspace x 2 centroids x
\* 2 floats, or 2 subspaces x 2 centroids x 1 float), k, and the facet value
\* filtered on.
Queries ==
  { [codebk |-> << << <<0, 1>>, <<2, 2>> >> >>, k |-> 1, value |-> 1],
    [codebk |-> << << <<0>>, <<3>> >>, << <<1>>, <<4>> >> >>,
     k |-> 2, value |-> 0] }

OneQuery == CHOOSE qu \in Queries : qu.k = 1

QueryFor(cb) == [d \in 1..(Len(cb) * Len(cb[1][1])) |-> 1]

\* The codes of shard number s, one byte per subspace per item.
ShardBytes(s, nbytes) == [p \in 1..nbytes |-> (p + s) % 2]

\* Shards of counts[j] chunks each, laid out one after the other in the
\* logical item space (sizes are multiples of chunkSize, line 13), listed in
\* layout order or in the reverse order.
MkShards(counts, cs, ns, rev) ==
  LET n == Len(counts)
      off(j) == cs * SumSeq(SubSeq(counts, 1, j - 1))
      sh(j) == [offset |-> off(j),
                len |-> counts[j] * cs * ns,
                buf |-> ShardBytes(j, counts[j] * cs * ns)]
  IN  [j \in 1..n |-> IF rev THEN sh(n + 1 - j) ELSE sh(j)]

\* Extra history indices past the end of the distance array: one chunk.
Pad == CHOOSE c \in ChunkSizes : \A d \in ChunkSizes : d <= c

NoPeer == [pc |-> "none"]

NoHist(start, total) ==
  [start |-> start, kernelCalls |-> 0, topkCalls |-> 0,
   written |-> [p \in 1..(total + Pad) |-> 0],
   stopped |-> FALSE, cancel |-> "none", trigger |-> -1,
   thrown |-> "none", lastCall |-> << -1, 0 >>, yields |-> 0]

\* The state at the call of queryToTiledDist: nothing written, nothing
\* emitted, continueFn answering "continue", the clock at 0.
ScanStart(cb, kk, value, cs, mt, shards, total, st) ==
  /\ codebk = cb
  /\ codebkflat = flattenCodebook(cb)
  /\ query = QueryFor(cb)
  /\ embeddings = shards
  /\ dists = [p \in 1..total |-> 0]
  /\ firstLetters = [p \in 1..total |-> (p - 1) % 2]
  /\ firstLetterInt = value
  /\ k = kk
  /\ embeddingCounter = st
  /\ env = [maxTick |-> mt, chunkSize |-> cs]
  /\ cont = TRUE
  /\ now = 0
  /\ pc = "call"
  /\ i = 0
  /\ lastPaint = 0
  /\ distTime = 0
  /\ topk = << >>
  /\ events = << >>
  /\ error = "none"
  /\ hist = NoHist(st, total)

\* The lists of chunk counts of n shards holding MaxChunks chunks at most.
ChunkCounts(n) == {c \in [1..n -> 0..MaxChunks] : SumSeq(c) <= MaxChunks}

Init ==
  \E qu \in Queries, cs \in ChunkSizes, mt \in TickBudgets,
     n \in 0..MaxShards, rev \in BOOLEAN :
   \E st \in 0..n :
    \E counts \in ChunkCounts(n) :
      /\ ScanStart(qu.codebk, qu.k, qu.value, cs, mt,
                   MkShards(counts, cs, Len(qu.codebk), rev),
                   cs * SumSeq(counts), st)
      /\ peer = NoPeer

\* --------------------------------------------------------- scan: actions
locals == << i, lastPaint, distTime, topk >>

\* Line 62-64: lastPaint = Date.now(), codebookshape.
Call ==
  /\ pc = "call"
  /\ lastPaint' = now
  /\ pc' = "outer"
  /\ UNCHANGED << args, dists, embeddingCounter, cont, now, i, distTime,
                  topk, events, error, hist >>

\* Line 66: the outer loop's test; line 67 and the inner loop's i = 0.
OuterTest ==
  /\ pc = "outer"
  /\ IF embeddingCounter < Len(embeddings)
       THEN i' = 0 /\ pc' = "inner"
       ELSE i' = i /\ pc' = "final"
  /\ UNCHANGED << args, dists, embeddingCounter, cont, now, lastPaint,
                  distTime, topk, events, error, hist >>

\* History of a poll that answers "stop": a poll has answered "stop", and a
\* cancellation that arrived during a kernel call has now been polled.
PollStopped ==
  [hist EXCEPT !.stopped = TRUE,
               !.cancel = IF @ = "inflight" THEN "polled" ELSE @]

\* NextShard without embeddingCounter++.
NextShardStays ==
  /\ embeddingCounter' = embeddingCounter
  /\ i' = 0
  /\ pc' = "outer"

\* Leaving the inner loop: embeddingCounter++ and back to the outer test.
\* The loop's i goes out of scope.
NextShard ==
  /\ embeddingCounter' = embeddingCounter + 1
  /\ i' = 0
  /\ pc' = "outer"

\* Line 68, i past the shard's items: continueFn is not called.
InnerExhausted ==
  /\ pc = "inner"
  /\ ~InShard
  /\ NextShard
  /\ UNCHANGED << args, dists, cont, now, lastPaint, distTime, topk, events,
                  error, hist >>

\* Line 68, continueFn() returns false: the inner loop ends.
InnerStop ==
  /\ pc = "inner"
  /\ InShard
  /\ ~cont
  /\ NextShard
  /\ hist' = PollStopped
  /\ UNCHANGED << args, dists, cont, now, lastPaint, distTime, topk, events,
                  error >>

\* Line 68 passes; lines 69-74 up to the await of queryDist.
InnerGo ==
  /\ pc = "inner"
  /\ InShard
  /\ cont
  /\ IF TileFits
       THEN /\ pc' = "kernel"
            /\ error' = error
            /\ hist' = [hist EXCEPT !.kernelCalls = @ + 1,
                                    !.lastCall = << embeddingCounter, i >>]
       ELSE /\ pc' = "rejected"
            /\ error' = "RangeError"
            /\ hist' = [hist EXCEPT !.thrown = "RangeError"]
  /\ UNCHANGED << args, dists, embeddingCounter, cont, now, locals, events >>

\* StepChunk with i++ in place of i += chunkSize.
StepChunkByOne ==
  /\ i' = i + 1
  /\ distTime' = 0
  /\ topk' = << >>
  /\ pc' = "inner"

\* The end of the inner loop's body, after the in-loop top-k was not taken
\* or after the yield: the body's distTime and topk go out of scope, and
\* i += chunkSize.
StepChunk ==
  /\ i' = i + env.chunkSize
  /\ distTime' = 0
  /\ topk' = << >>
  /\ pc' = "inner"

\* Line 74 resolves; lines 75-81: the writes, distTime, the DistanceUpdate
\* and the gate of the in-loop top-k, up to the await of distTopK.
KernelDone ==
  /\ pc = "kernel"
  /\ dists' = WrittenDists
  /\ Emit(DistanceUpdate)
  /\ IF TopKDue(now)
       THEN /\ pc' = "topk"
            /\ distTime' = now
            /\ UNCHANGED << i, topk >>
            /\ hist' = [hist EXCEPT !.written = CountWrites,
                                    !.topkCalls = @ + 1,
                                    !.trigger = now]
       ELSE /\ StepChunk
            /\ hist' = [hist EXCEPT !.written = CountWrites]
  /\ UNCHANGED << args, embeddingCounter, cont, now, lastPaint, error >>

\* KernelFail with the error caught and the chunk skipped.
KernelFailSkipsChunk ==
  /\ pc = "kernel"
  /\ \E e \in KernelErrors : hist' = [hist EXCEPT !.thrown = e]
  /\ StepChunk
  /\ UNCHANGED << args, dists, embeddingCounter, cont, now, lastPaint, events,
                  error >>

\* Line 74 rejects: the scan's promise rejects with the same error.
KernelFail ==
  /\ pc = "kernel"
  /\ \E e \in KernelErrors :
       /\ error' = e
       /\ hist' = [hist EXCEPT !.thrown = e]
  /\ pc' = "rejected"
  /\ UNCHANGED << args, dists, embeddingCounter, cont, now, locals, events >>

\* TopKDone without lines 86-87: straight on to the next chunk.
TopKDoneNoYield ==
  /\ pc = "topk"
  /\ Emit(TopKUpdate(distTopK(dists, firstLetters, firstLetterInt, k)))
  /\ StepChunk
  /\ UNCHANGED << args, dists, embeddingCounter, cont, now, lastPaint, error,
                  hist >>

\* Line 82 resolves; lines 83-86: the TopKUpdate, up to the await of the
\* zero-delay timer.
TopKDone ==
  /\ pc = "topk"
  /\ topk' = distTopK(dists, firstLetters, firstLetterInt, k)
  /\ Emit(TopKUpdate(topk'))
  /\ pc' = "yield"
  /\ UNCHANGED << args, dists, embeddingCounter, cont, now, i, lastPaint,
                  distTime, error, hist >>

\* Line 82 rejects.
TopKFail ==
  /\ pc = "topk"
  /\ \E e \in TopKErrors :
       /\ error' = e
       /\ hist' = [hist EXCEPT !.thrown = e]
  /\ pc' = "rejected"
  /\ UNCHANGED << args, dists, embeddingCounter, cont, now, locals, events >>

\* Yield without line 87.
YieldKeepsLastPaint ==
  /\ pc = "yield"
  /\ lastPaint' = lastPaint
  /\ StepChunk
  /\ UNCHANGED << args, dists, embeddingCounter, cont, now, events, error,
                  hist >>

\* Line 86 resolves; line 87: lastPaint = Date.now(); then i += chunkSize.
Yield ==
  /\ pc = "yield"
  /\ lastPaint' = now
  /\ StepChunk
  /\ hist' = [hist EXCEPT !.yields = @ + 1]
  /\ UNCHANGED << args, dists, embeddingCounter, cont, now, events, error >>

\* FinalPoll without the poll: the final recomputation is always made.
FinalPollSkipped ==
  /\ pc = "final"
  /\ pc' = "finaltopk"
  /\ hist' = [hist EXCEPT !.topkCalls = @ + 1]
  /\ UNCHANGED << args, dists, embeddingCounter, cont, now, locals, events,
                  error >>

\* FinalPoll with the final recomputation held to the tick budget like the
\* recomputations inside the loop.
FinalPollOnBudget ==
  /\ pc = "final"
  /\ IF cont /\ now - lastPaint > env.maxTick
       THEN /\ pc' = "finaltopk"
            /\ hist' = [hist EXCEPT !.topkCalls = @ + 1]
       ELSE /\ pc' = "returned"
            /\ hist' = [hist EXCEPT !.stopped = @ \/ ~cont]
  /\ UNCHANGED << args, dists, embeddingCounter, cont, now, locals, events,
                  error >>

\* Line 91: the poll after the loops.
FinalPoll ==
  /\ pc = "final"
  /\ IF cont
       THEN /\ pc' = "finaltopk"
            /\ hist' = [hist EXCEPT !.topkCalls = @ + 1]
       ELSE /\ pc' = "returned"
            /\ hist' = PollStopped
  /\ UNCHANGED << args, dists, embeddingCounter, cont, now, locals, events,
                  error >>

\* FinalTopKDone delivering the top-k of the last TopKUpdate, when there is
\* one, in place of the one just computed.
FinalTopKStale ==
  /\ pc = "finaltopk"
  /\ LET seen == {e \in 1..Len(events) : events[e].kind = "topk"}
         last == CHOOSE e \in seen : \A f \in seen : f <= e
     IN  Emit(FinalUpdate(IF seen = {}
                            THEN distTopK(dists, firstLetters,
                                          firstLetterInt, k)
                            ELSE events[last].topk))
  /\ pc' = "returned"
  /\ UNCHANGED << args, dists, embeddingCounter, cont, now, locals, error,
                  hist >>

\* FinalTopKDone with a top-k session that sorts the array it is given in
\* place.
FinalTopKSortsDists ==
  /\ pc = "finaltopk"
  /\ dists' = [p \in 1..Len(dists) |->
                 Smallest(dists, 1..Len(dists), Len(dists))[p][2]]
  /\ Emit(FinalUpdate(distTopK(dists, firstLetters, firstLetterInt, k)))
  /\ pc' = "returned"
  /\ UNCHANGED << args, embeddingCounter, cont, now, locals, error, hist >>

\* Line 92 resolves; line 93: the combined event; the scan returns.
FinalTopKDone ==
  /\ pc = "finaltopk"
  /\ Emit(FinalUpdate(distTopK(dists, firstLetters, firstLetterInt, k)))
  /\ pc' = "returned"
  /\ UNCHANGED << args, dists, embeddingCounter, cont, now, locals, error,
                  hist >>

\* Line 92 rejects.
FinalTopKFail ==
  /\ pc = "finaltopk"
  /\ \E e \in TopKErrors :
       /\ error' = e
       /\ hist' = [hist EXCEPT !.thrown = e]
  /\ pc' = "rejected"
  /\ UNCHANGED << args, dists, embeddingCounter, cont, now, locals, events >>

\* ----------------------------------------------------- the environment
\* The scan is about to call continueFn: lines 68 and 91.
Polling == pc \in {"inner", "final"}

\* The clock moves on.  The scan compares the readings of lines 62, 78 and
\* 87 only: between line 62 or 87 and the next line 78 lies the await of the
\* kernel call, between line 78 and the next line 87 the await of the timer,
\* so time that passes anywhere else reads the same as time passing there.
Tick ==
  /\ pc \in {"kernel", "yield"}
  /\ now < MaxTime
  /\ now' = now + 1
  /\ UNCHANGED << args, dists, embeddingCounter, cont, pc, locals, events,
                  error, hist >>

\* What continueFn answers changes: the caller changes the state the
\* predicate reads while a kernel call is in flight, or the predicate, which
\* is any function of the caller's, answers differently from one poll to the
\* next (a change during another await reads the same as one at the next
\* poll).  History: "inflight" when the answer became "stop" during a kernel
\* call and has stayed "stop" since, "polled" once a poll has read it.
SetCont ==
  /\ pc = "kernel" \/ Polling
  /\ cont' = ~cont
  /\ hist' = [hist EXCEPT
                !.cancel = IF cont /\ pc = "kernel" THEN "inflight" ELSE "none"]
  /\ UNCHANGED << args, dists, embeddingCounter, now, pc, locals, events,
                  error >>

Next ==
  \/ Call
  \/ OuterTest
  \/ InnerExhausted
  \/ InnerStop
  \/ InnerGo
  \/ KernelDone
  \/ KernelFail
  \/ TopKDone
  \/ TopKFail
  \/ Yield
  \/ FinalPoll
  \/ FinalTopKDone
  \/ FinalTopKFail
  \/ Tick
  \/ SetCont

Spec == Init /\ [][Next]_vars

\* The steps of the scan itself, as against those of its environment.
ScanStep ==
  \/ Call
  \/ OuterTest
  \/ InnerExhausted
  \/ InnerStop
  \/ InnerGo
  \/ KernelDone
  \/ KernelFail
  \/ TopKDone
  \/ TopKFail
  \/ Yield
  \/ FinalPoll
  \/ FinalTopKDone
  \/ FinalTopKFail

\* Every await settles (a session run resolves or rejects, the zero-delay
\* timer fires) and synchronous code runs on: a scan that can take a step
\* eventually takes one.  Nothing is assumed of the clock or of continueFn.
\* The scans of Init for one of its queries.
InitLive == Init /\ codebk = OneQuery.codebk

SpecLive == InitLive /\ [][Next]_vars /\ WF_vars(ScanStep)

\* --------------------------------------------------- scans with an invalid k
\* Values of k that are not a count of results the engine's uint8 input can
\* carry: zero, a negative number, a number past 255.  What the top-k
\* session does with the k it receives is the engine's business: the call
\* resolves (TopKDone) or rejects (TopKFail).
InvalidKs == {0, 0 - 1, 256}


InitInvalidK ==
  \E kk \in InvalidKs, cs \in ChunkSizes, mt \in TickBudgets,
     n \in 0..MaxShards :
    \E counts \in ChunkCounts(n) :
      /\ ScanStart(OneQuery.codebk, kk, OneQuery.value, cs, mt,
                   MkShards(counts, cs, Len(OneQuery.codebk), FALSE),
                   cs * SumSeq(counts), 0)
      /\ peer = NoPeer

SpecInvalidK == InitInvalidK /\ [][Next]_vars

\* ------------------------------------------------ two scans on one thread
\* What belongs to one call of queryToTiledDist: its own arguments (query,
\* dists, firstLetterInt, k, embeddingCounter, and its callbacks continueFn
\* and intermediateValueFn), its locals and its promise.  The shards, the
\* facet column, the codebook and env are shared by the two calls.
Me ==
  [query |-> query, dists |-> dists, firstLetterInt |-> firstLetterInt,
   k |-> k, embeddingCounter |-> embeddingCounter, cont |-> cont, pc |-> pc,
   i |-> i, lastPaint |-> lastPaint, distTime |-> distTime, topk |-> topk,
   events |-> events, error |-> error, hist |-> hist]

\* Where a call can be while the other one runs: not yet made, at one of
\* its awaits (lines 74, 82, 86, 92), or settled.
Suspended ==
  pc \in {"call", "kernel", "topk", "yield", "finaltopk", "returned",
          "rejected"}

\* Switch for two calls that were handed the same distance array.
SwitchSharingDists ==
  /\ peer.pc # "none"
  /\ Suspended
  /\ peer' = Me
  /\ query' = peer.query
  /\ dists' = dists
  /\ firstLetterInt' = peer.firstLetterInt
  /\ k' = peer.k
  /\ embeddingCounter' = peer.embeddingCounter
  /\ cont' = peer.cont
  /\ pc' = peer.pc
  /\ i' = peer.i
  /\ lastPaint' = peer.lastPaint
  /\ distTime' = peer.distTime
  /\ topk' = peer.topk
  /\ events' = peer.events
  /\ error' = peer.error
  /\ hist' = peer.hist
  /\ UNCHANGED << codebk, codebkflat, embeddings, firstLetters, env, now >>

\* The running call is at an await (or not started, or settled) and the
\* event loop runs the other one: from here on the variables of the scan
\* are the other call's, until the next switch.  Synchronous code between
\* two awaits is never interrupted.
Switch ==
  /\ peer.pc # "none"
  /\ Suspended
  /\ peer' = Me
  /\ query' = peer.query
  /\ dists' = peer.dists
  /\ firstLetterInt' = peer.firstLetterInt
  /\ k' = peer.k
  /\ embeddingCounter' = peer.embeddingCounter
  /\ cont' = peer.cont
  /\ pc' = peer.pc
  /\ i' = peer.i
  /\ lastPaint' = peer.lastPaint
  /\ distTime' = peer.distTime
  /\ topk' = peer.topk
  /\ events' = peer.events
  /\ error' = peer.error
  /\ hist' = peer.hist
  /\ UNCHANGED << codebk, codebkflat, embeddings, firstLetters, env, now >>

\* The second call's arguments: another query vector, k and facet value,
\* its own distance array, its own starting position.
OtherQuery(cb) == [d \in 1..(Len(cb) * Len(cb[1][1])) |-> 0]

OtherCall(cb, st, total) ==
  [query |-> OtherQuery(cb), dists |-> [p \in 1..total |-> 0],
   firstLetterInt |-> 1 - OneQuery.value, k |-> OneQuery.k + 1,
   embeddingCounter |-> st, cont |-> TRUE, pc |-> "call", i |-> 0,
   lastPaint |-> 0, distTime |-> 0, topk |-> << >>, events |-> << >>,
   error |-> "none", hist |-> NoHist(st, total)]

InitPair ==
  \E cs \in ChunkSizes, mt \in TickBudgets, n \in 1..MaxShards :
   \E st \in 0..1 :
    \E counts \in {c \in ChunkCounts(n) : SumSeq(c) <= MaxPairChunks} :
      /\ ScanStart(OneQuery.codebk, OneQuery.k, OneQuery.value, cs, mt,
                   MkShards(counts, cs, Len(OneQuery.codebk), FALSE),
                   cs * SumSeq(counts), 0)
      /\ peer = OtherCall(OneQuery.codebk, st, cs * SumSeq(counts))

\* The clock the two calls read.
PairTick == now < MaxPairTime /\ Tick

\* Both calls poll predicates that answer "continue" throughout.
NextPair ==
  \/ Call
  \/ OuterTest
  \/ InnerExhausted
  \/ InnerGo
  \/ KernelDone
  \/ KernelFail
  \/ TopKDone
  \/ TopKFail
  \/ Yield
  \/ FinalPoll
  \/ FinalTopKDone
  \/ FinalTopKFail
  \/ PairTick
  \/ Switch

SpecPair == InitPair /\ [][NextPair]_vars

\* ------------------------------------------- flattenCodebook on its own
\* Rectangular codebooks whose entries all differ: entry number x, counted
\* subspace outermost and sub-dimension innermost, is base + step * x.  The
\* second base puts entries on both sides of 2^24.
Bases == {0, F32Exact - 1}
Steps == {1, 3}

PatternCodebook(ns, nc, sd, base, step) ==
  [s \in 1..ns |-> [c \in 1..nc |-> [d \in 1..sd |->
      base + step * (((s - 1) * nc + (c - 1)) * sd + (d - 1))]]]

\* The state before one call of flattenCodebook(cb): no scan is under way.
FlattenStart(cb) ==
  /\ codebk = cb
  /\ codebkflat = << >>
  /\ query = << >>
  /\ embeddings = << >>
  /\ dists = << >>
  /\ firstLetters = << >>
  /\ firstLetterInt = 0
  /\ k = 1
  /\ embeddingCounter = 0
  /\ env = [maxTick |-> 30, chunkSize |-> 100000]
  /\ cont = TRUE
  /\ now = 0
  /\ pc = "flatten"
  /\ i = 0
  /\ lastPaint = 0
  /\ distTime = 0
  /\ topk = << >>
  /\ events = << >>
  /\ error = "none"
  /\ hist = NoHist(0, 0)
  /\ peer = NoPeer

InitFlatten ==
  \E ns \in 1..MaxSubspaces, nc \in 1..MaxCentroids, sd \in 1..MaxSubDim,
     base \in Bases, step \in Steps :
    FlattenStart(PatternCodebook(ns, nc, sd, base, step))

\* Lines 104-107: one call of flattenCodebook(codebk).  The function makes
\* no test of its argument's shape: it returns the buffer, or the TypeError
\* of the mapping function propagates.
FlattenCall ==
  /\ pc = "flatten"
  /\ IF FlattenThrows(codebk)
       THEN /\ codebkflat' = codebkflat
            /\ error' = "TypeError"
            /\ pc' = "threw"
       ELSE /\ codebkflat' = flattenCodebook(codebk)
            /\ error' = error
            /\ pc' = "flattened"
  /\ UNCHANGED << codebk, query, embeddings, dists, firstLetters,
                  firstLetterInt, k, embeddingCounter, env, cont, now, i,
                  lastPaint, distTime, topk, events, hist, peer >>

NextFlatten == FlattenCall

SpecFlatten == InitFlatten /\ [][NextFlatten]_vars

\* Codebooks that need not be rectangular: a pattern codebook with one
\* change of shape at group g, centroid c.
Defects == {"none", "dropCentroid", "addCentroid", "dropDim", "addDim"}

DefectCodebook(cb, kind, g, c) ==
  LET sd == Len(cb[g][c])
      nc == Len(cb[g])
  IN  CASE kind = "dropCentroid" /\ nc > 1 ->
             [cb EXCEPT ![g] = SubSeq(@, 1, nc - 1)]
        [] kind = "addCentroid" ->
             [cb EXCEPT ![g] = Append(@, [d \in 1..sd |-> d])]
        [] kind = "dropDim" /\ sd > 1 ->
             [cb EXCEPT ![g][c] = SubSeq(@, 1, sd - 1)]
        [] kind = "addDim" ->
             [cb EXCEPT ![g][c] = Append(@, sd)]
        [] OTHER -> cb

InitFlattenAny ==
  \E ns \in 1..MaxSubspaces, nc \in 1..MaxCentroids, sd \in 1..MaxSubDim,
     kind \in Defects :
    \E g \in 1..ns, c \in 1..nc :
      FlattenStart(DefectCodebook(PatternCodebook(ns, nc, sd, 0, 1),
                                  kind, g, c))

SpecFlattenAny == InitFlattenAny /\ [][NextFlatten]_vars

\* ------------------------------------------- scans of ragged shard lists
\* The chunks a shard of n items is scanned in: ceil(n / cs).
ChunksOf(n, cs) == (n + cs - 1) \div cs

\* Shards of items[j] items each, any number of them, laid out one after
\* the other in the logical item space.  A shard's data is a view of a
\* buffer: with slack the buffer runs on to the end of the tail chunk's
\* tile (the view is part of a larger or padded buffer), without it the
\* buffer ends where the data ends.
MkRaggedShards(items, cs, ns, slack, rev) ==
  LET n == Len(items)
      off(j) == SumSeq(SubSeq(items, 1, j - 1))
      bytes(j) == IF slack THEN ChunksOf(items[j], cs) * cs * ns
                  ELSE items[j] * ns
      sh(j) == [offset |-> off(j),
                len |-> items[j] * ns,
                buf |-> ShardBytes(j, bytes(j))]
  IN  [j \in 1..n |-> IF rev THEN sh(n + 1 - j) ELSE sh(j)]

\* The lists of item counts of n shards scanned in MaxChunks chunks at most.
ItemCounts(n, cs) ==
  {c \in [1..n -> 0..(cs * MaxChunks)] :
     SumSeq([j \in 1..n |-> ChunksOf(c[j], cs)]) <= MaxChunks}

InitRagged ==
  \E cs \in ChunkSizes, mt \in TickBudgets, n \in 0..MaxShards,
     slack \in BOOLEAN, rev \in BOOLEAN :
    \E items \in ItemCounts(n, cs) :
      /\ ScanStart(OneQuery.codebk, OneQuery.k, OneQuery.value, cs, mt,
                   MkRaggedShards(items, cs, Len(OneQuery.codebk), slack,
                                  rev),
                   SumSeq(items), 0)
      /\ peer = NoPeer

SpecRagged == InitRagged /\ [][Next]_vars

\* ============================================================ properties
\* The scan returned and no poll of continueFn answered "stop".
Completed == pc = "returned" /\ ~hist.stopped

\* The number of events of one kind delivered so far.
Count(kind) == Cardinality({e \in 1..Len(events) : events[e].kind = kind})

LastEvent == events[Len(events)]

\* C1: when every poll answers "continue" and no call fails, the scan makes
\* exactly one top-k call after its loops (one more than the in-loop
\* TopKUpdates) and then delivers exactly one combined event, carrying the
\* distance array with every chunk and the top-k over it; it is the last
\* event, and no combined event is delivered before the scan returns.  The
\* clock is free, so this holds whatever time has passed since lastPaint.
C1_FinalSnapshot ==
  /\ Completed =>
       /\ events # << >>
       /\ LastEvent.kind = "final"
       /\ LastEvent.done = hist.kernelCalls
       /\ LastEvent.topk = distTopK(dists, firstLetters, firstLetterInt, k)
       /\ Count("final") = 1
       /\ hist.topkCalls = Count("topk") + 1
  /\ pc # "returned" => Count("final") = 0

\* C1's case: a scan of two chunks or more completed, and its final event
\* came although the tick budget had not run out since lastPaint.
C1_Witness ==
  /\ Completed
  /\ hist.kernelCalls >= 2
  /\ env.maxTick >= 1
  /\ now - lastPaint <= env.maxTick
  /\ LastEvent.kind = "final"

\* C2: once a poll has answered "stop", intermediateValueFn is never called
\* again and no top-k call is made, whatever later polls answer.
C2_SilentAfterStop ==
  [][hist.stopped =>
       /\ events' = events
       /\ hist'.topkCalls = hist.topkCalls]_vars

\* The kernel results of every chunk whose call has resolved are in the
\* distance array: chunkSize writes per chunk.
ChunksWritten ==
  SumSeq(hist.written) =
    env.chunkSize * (hist.kernelCalls - (IF pc = "kernel" THEN 1 ELSE 0))

\* C3: once the poll before a chunk has answered "stop", the chunks before
\* it are fully written, and no kernel call and no write to the distance
\* array is made for that chunk or any later one.
C3_HaltAtBoundary ==
  /\ [](hist.stopped /\ error = "none" => ChunksWritten)
  /\ [][hist.stopped =>
          /\ hist'.kernelCalls = hist.kernelCalls
          /\ dists' = dists
          /\ hist'.written = hist.written]_vars

\* The items of a shard, and of the whole list.
ItemCount(sh) == sh.len \div NumSubspaces

RECURSIVE SumItems(_)
SumItems(shards) ==
  IF shards = << >> THEN 0
  ELSE ItemCount(Head(shards)) + SumItems(Tail(shards))

TotalItems == SumItems(embeddings)

\* C4 as stated: after a completed scan every index in [0, totalItems) has
\* been written exactly once and no index outside it has been written.
C4_FullCoverage ==
  Completed =>
    \A p \in 1..Len(hist.written) :
      hist.written[p] = IF p <= TotalItems THEN 1 ELSE 0

\* Whether 0-based index x lies in the range of a shard at list position
\* from (0-based) or later.
Covered(x, from) ==
  \E c \in (from + 1)..Len(embeddings) :
    /\ x >= embeddings[c].offset
    /\ x < embeddings[c].offset + ItemCount(embeddings[c])

\* C4, amended: after a completed scan every index in the range of a shard
\* at list position embeddingCounter (the scan's starting position) or later
\* has been written exactly once, and no other index has been written; for a
\* scan started at position 0 these are the indices of [0, totalItems).
C4_CoverageFromStart ==
  Completed =>
    /\ \A p \in 1..Len(hist.written) :
         hist.written[p] = IF Covered(p - 1, hist.start) THEN 1 ELSE 0
    /\ hist.start = 0 =>
         \A p \in 1..Len(hist.written) :
           hist.written[p] = IF p <= TotalItems THEN 1 ELSE 0

\* C4's case: a completed scan of two non-empty shards, listed in the reverse
\* of their layout, each of them written.
C4_Witness ==
  /\ Completed
  /\ hist.start = 0
  /\ Len(embeddings) = 2
  /\ embeddings[1].offset > 0
  /\ hist.kernelCalls >= 3
  /\ \A p \in 1..TotalItems : hist.written[p] = 1

\* C5: the first chunk a scan processes is followed, before a second kernel
\* call starts, by a top-k call and its TopKUpdate: the second event of the
\* scan, right after the chunk's DistanceUpdate.
C5_FirstChunkTopK ==
  hist.kernelCalls >= 2 =>
    /\ hist.topkCalls >= 1
    /\ Len(events) >= 2
    /\ events[2].kind = "topk"

\* C6: a top-k recomputation inside the loop that is not the first chunk's
\* is started only when distTime - lastPaint > maxTick, and the distTime
\* that starts a recomputation inside the loop is at least maxTick later
\* than the distTime that started the one before it.
C6_Cadence ==
  [][(pc = "kernel" /\ pc' = "topk") =>
       /\ ~FirstChunk => distTime' - lastPaint > env.maxTick
       /\ hist.trigger >= 0 => distTime' - hist.trigger >= env.maxTick]_vars

\* C6's case: with a positive tick budget and no first-chunk recomputation
\* (the scan started past shard 0), a second recomputation has started.
C6_Witness ==
  /\ pc = "topk"
  /\ hist.start >= 1
  /\ env.maxTick >= 1
  /\ Count("topk") >= 1
  /\ hist.topkCalls = 2

\* The events that carry a top-k result.
TopKEvents == Count("topk") + Count("final")

Thrown == hist.thrown # "none"

\* C8: when a Distance Kernel or Top-K Engine call fails, the caller of the
\* scan receives that very error, and from then on the scan makes no call,
\* writes nothing and delivers no event; the events delivered stay.
C8_FailureAborts ==
  /\ [](Thrown => (pc = "rejected" /\ error = hist.thrown))
  /\ [](error # "none" => Thrown)
  /\ [][Thrown => UNCHANGED << pc, error, events, dists, hist >>]_vars

\* C8's case: a kernel call failed after events had been delivered.
C8_Witness ==
  /\ pc = "rejected"
  /\ error \in KernelErrors
  /\ hist.kernelCalls >= 2
  /\ Count("topk") >= 1

\* The distance array a scan of the inputs ends with: the chunks of the
\* shards from the starting position on, written in order over the initial
\* array.  Neither the clock nor the tick budget occurs in it.
RECURSIVE ScanShard(_, _, _)
ScanShard(d, sh, ii) ==
  IF InShardAt(sh, ii)
    THEN ScanShard(WriteChunk(d, sh, ii), sh, ii + env.chunkSize)
    ELSE d

RECURSIVE ScanFrom(_, _)
ScanFrom(d, c) ==
  IF c < Len(embeddings)
    THEN ScanFrom(ScanShard(d, embeddings[c + 1], 0), c + 1)
    ELSE d

ExpectedDists == ScanFrom([p \in 1..Len(dists) |-> 0], hist.start)

\* C9: a completed scan ends with the distance array and the final top-k
\* that its inputs alone determine, whatever the clock read, whatever the
\* tick budget, and however many recomputations and yields it made; so two
\* completed scans of the same inputs end alike.
C9_Deterministic ==
  Completed =>
    /\ dists = ExpectedDists
    /\ LastEvent.kind = "final"
    /\ LastEvent.topk =
         distTopK(ExpectedDists, firstLetters, firstLetterInt, k)

\* C9's case: a completed scan that recomputed the top-k inside the loop and
\* whose final top-k differs from that intermediate one.
C9_Witness ==
  /\ Completed
  /\ hist.kernelCalls >= 2
  /\ \E e \in 1..Len(events) :
       events[e].kind = "topk" /\ events[e].topk # LastEvent.topk

\* The codebook's shape.
NumCentroids == Len(codebk[1])
SubspaceDim == Len(codebk[1][1])

\* C10 as stated: the buffer has numSubspaces * numCentroids * subspaceDim
\* elements and flat[(s * numCentroids + c) * subspaceDim + d] is
\* codebook[s][c][d].
C10_FlatLayout ==
  pc = "flattened" =>
    /\ Len(codebkflat) = NumSubspaces * NumCentroids * SubspaceDim
    /\ \A s \in 0..(NumSubspaces - 1), c \in 0..(NumCentroids - 1),
          d \in 0..(SubspaceDim - 1) :
         codebkflat[(s * NumCentroids + c) * SubspaceDim + d + 1]
           = codebk[s + 1][c + 1][d + 1]

\* C10, amended: the buffer has numSubspaces * numCentroids * subspaceDim
\* elements and flat[(s * numCentroids + c) * subspaceDim + d] is
\* codebook[s][c][d] rounded to single precision, hence codebook[s][c][d]
\* itself when that is a single-precision number.
C10_FlatLayoutF32 ==
  pc = "flattened" =>
    /\ Len(codebkflat) = NumSubspaces * NumCentroids * SubspaceDim
    /\ \A s \in 0..(NumSubspaces - 1), c \in 0..(NumCentroids - 1),
          d \in 0..(SubspaceDim - 1) :
         LET x == codebk[s + 1][c + 1][d + 1]
             y == codebkflat[(s * NumCentroids + c) * SubspaceDim + d + 1]
         IN  /\ y = Fround(x)
             /\ x <= F32Exact => y = x

\* C10's case: a codebook of 2 x 2 x 2 or more was flattened, with entries
\* that are single-precision numbers and entries that are not.
C10_Witness ==
  /\ pc = "flattened"
  /\ NumSubspaces >= 2 /\ NumCentroids >= 2 /\ SubspaceDim >= 2
  /\ codebk[1][1][1] < F32Exact
  /\ Fround(codebk[1][2][1]) # codebk[1][2][1]

\* ------------------------------------------------------------------ C11
\* Every group has as many centroids, and every centroid as many floats, as
\* the first.
Rectangular(cb) ==
  \A s \in 1..Len(cb) :
    /\ Len(cb[s]) = Len(cb[1])
    /\ \A c \in 1..Len(cb[s]) : Len(cb[s][c]) = Len(cb[1][1])

\* C11: flattenCodebook of a codebook that is not rectangular fails with a
\* ShapeError and returns no buffer.
C11_RaggedRejected ==
  (pc # "flatten" /\ ~Rectangular(codebk))
     => (error = "ShapeError" /\ codebkflat = << >>)

\* ------------------------------------------------------------------ C12
\* C12: a scan called with an invalid k fails before scanning begins: it
\* makes no kernel call, leaves the distance array as it was and emits no
\* event.
C12_InvalidKRejectedFirst ==
  (k <= 0 \/ k > 255)
     => /\ hist.kernelCalls = 0
        /\ dists = [p \in 1..Len(dists) |-> 0]
        /\ events = << >>

\* ------------------------------------------------------------------ C13
\* The distance array of a scan of the running call's inputs after its
\* first n chunks, every poll answering "continue": the chunks of the
\* shards from position c, offset ii on, written in order over d.
RECURSIVE ScanPrefix(_, _, _, _)
ScanPrefix(d, c, ii, n) ==
  IF n = 0 \/ c >= Len(embeddings) THEN d
  ELSE IF InShardAt(embeddings[c + 1], ii)
    THEN ScanPrefix(WriteChunk(d, embeddings[c + 1], ii), c,
                    ii + env.chunkSize, n - 1)
    ELSE ScanPrefix(d, c + 1, 0, n)

AloneAfter(n) == ScanPrefix([p \in 1..Len(dists) |-> 0], hist.start, 0, n)

\* C13: of two calls interleaved at their awaits, each with its own
\* distance array, the running one is at every moment where a scan of its
\* inputs alone would be: its distance array holds its own first chunks and
\* nothing else, its DistanceUpdates number its chunks in order, every
\* top-k it delivered is the top-k of its own array at that chunk under its
\* own k and facet value, and when it returns it has the final array and
\* top-k of a scan alone.  Every call is the running one each time it is
\* resumed, so this holds of both.
C13_Independent ==
  peer.pc # "none" =>
    /\ dists = AloneAfter(SumSeq(hist.written) \div env.chunkSize)
    /\ \A e \in 1..Len(events) :
         /\ events[e].kind = "dist" =>
              events[e].done =
                Cardinality({f \in 1..e : events[f].kind = "dist"})
         /\ events[e].kind # "dist" =>
              events[e].topk =
                distTopK(AloneAfter(events[e].done), firstLetters,
                         firstLetterInt, k)
    /\ pc = "returned" =>
         /\ dists = ExpectedDists
         /\ LastEvent.kind = "final"
         /\ LastEvent.topk =
              distTopK(ExpectedDists, firstLetters, firstLetterInt, k)

\* C13's case: one call has returned with its final event while the other,
\* resumed several times in between, is suspended in the middle of its scan
\* with chunks written to its own array and events delivered.
C13_Witness ==
  /\ pc = "returned"
  /\ hist.kernelCalls >= 2
  /\ Count("topk") >= 1
  /\ peer.pc \in {"kernel", "topk", "yield"}
  /\ peer.hist.kernelCalls >= 2
  /\ Len(peer.events) >= 2
  /\ peer.dists # dists

\* ------------------------------------------------------------------ C14
\* A kernel call starts: line 74 is reached.
KernelStarts == pc = "inner" /\ pc' = "kernel"

\* C14: kernel calls are made one at a time and in order.  When one starts,
\* none is in flight, every earlier call's distances are written and its
\* DistanceUpdate and (when one was due) TopKUpdate delivered; the call is
\* for offset i = 0 of a shard later in the list than the previous call's,
\* or for the offset chunkSize after the previous call's in the same shard.
\* The cursor <<embeddingCounter, i>> never moves backwards.
C14_KernelCallsInOrder ==
  /\ [][KernelStarts =>
          /\ ChunksWritten
          /\ Count("dist") = hist.kernelCalls
          /\ Count("topk") = hist.topkCalls
          /\ hist'.kernelCalls = hist.kernelCalls + 1
          /\ i % env.chunkSize = 0
          /\ IF hist.lastCall[1] = embeddingCounter
               THEN i = hist.lastCall[2] + env.chunkSize
               ELSE hist.lastCall[1] < embeddingCounter /\ i = 0]_vars
  /\ [][hist'.kernelCalls # hist.kernelCalls => KernelStarts]_vars
  /\ [][\/ embeddingCounter' > embeddingCounter
        \/ embeddingCounter' = embeddingCounter /\ i' >= i]_vars

\* C14's case: after both chunks of the first shard, the kernel call for
\* the second shard's chunk is in flight.
C14_Witness ==
  /\ pc = "kernel"
  /\ embeddingCounter = 1
  /\ hist.lastCall = << 1, 0 >>
  /\ hist.kernelCalls = 3
  /\ Count("dist") = 2

\* ------------------------------------------------------------------ C15
\* An event is delivered by this step.
Emits == Len(events') = Len(events) + 1

Emitted == events'[Len(events')]

\* The kernel result for 0-based index x of the distance array: the entry
\* of the chunk of the shard whose range x lies in.
KernelValue(x) ==
  LET c == CHOOSE b \in 1..Len(embeddings) :
             /\ x >= embeddings[b].offset
             /\ x < embeddings[b].offset + ItemCount(embeddings[b])
      at == x - embeddings[c].offset
      ii == (at \div env.chunkSize) * env.chunkSize
  IN  DistTile(embeddings[c], ii)[at - ii + 1]

\* C15: when an event is delivered, the distance array holds the kernel
\* results of every chunk whose call has resolved.  A DistanceUpdate is
\* delivered by the step that has just written all chunkSize entries of its
\* chunk; an event with a top-k carries the top-k of the array as it stands
\* at the event, which holds every chunk processed so far.
C15_EventsSeeWrites ==
  [][Emits =>
       /\ hist'.written = IF Emitted.kind = "dist" THEN CountWrites
                          ELSE hist.written
       /\ SumSeq(hist'.written) = env.chunkSize * hist.kernelCalls
       /\ \A p \in 1..Len(dists) :
            hist'.written[p] > 0 => dists'[p] = KernelValue(p - 1)
       /\ Emitted.done = hist.kernelCalls
       /\ Emitted.kind = "dist" =>
            \A p \in 1..Len(dists) :
              InChunk(p - 1, Shard, i) =>
                dists'[p] = DistTile(Shard, i)[p - WriteBase(Shard, i)]
       /\ Emitted.kind # "dist" =>
            /\ dists' = dists
            /\ Emitted.topk =
                 distTopK(dists', firstLetters, firstLetterInt, k)]_vars

\* C15's case: the second chunk's TopKUpdate has been delivered, over an
\* array in which both chunks' distances stand.
C15_Witness ==
  /\ pc = "yield"
  /\ hist.kernelCalls = 2
  /\ Count("dist") = 2
  /\ LastEvent.kind = "topk"
  /\ LastEvent.done = 2
  /\ dists = AloneAfter(2)
  /\ dists # AloneAfter(1)

\* ------------------------------------------------------------------ C16
\* C16: a top-k call inside the loop that resolves is followed at once by
\* its TopKUpdate and then by the await of the zero-delay timer; when the
\* timer fires, lastPaint is set to the clock's reading then, and only then
\* does the scan go on to the next poll.  The scan waits on the timer
\* nowhere else: a chunk that starts no recomputation goes straight to the
\* next poll and the final recomputation straight to the return, so the
\* yields made are as many as the TopKUpdates delivered.
C16_YieldAfterTopK ==
  /\ [][(pc = "topk" /\ pc' \notin {"topk", "rejected"}) =>
          /\ pc' = "yield"
          /\ Emits
          /\ Emitted.kind = "topk"
          /\ UNCHANGED << lastPaint, hist >>]_vars
  /\ [][(pc = "yield" /\ pc' # "yield") =>
          /\ pc' = "inner"
          /\ lastPaint' = now
          /\ hist'.yields = hist.yields + 1
          /\ events' = events]_vars
  /\ [][(pc' = "yield" /\ pc # "yield") => pc = "topk"]_vars
  /\ [][hist'.yields # hist.yields => pc = "yield"]_vars
  /\ [][pc' \in {"inner", "kernel"} => pc # "topk"]_vars
  /\ [][pc = "finaltopk" =>
          pc' \in {"finaltopk", "returned", "rejected"}]_vars
  /\ [](hist.yields + (IF pc = "yield" THEN 1 ELSE 0) = Count("topk"))

\* C16's case: the scan is back at the poll after its second yield, with
\* lastPaint at the time the timer fired, later than the distTime that
\* started the recomputation, and with a chunk in between that started none.
C16_Witness ==
  /\ pc = "inner"
  /\ hist.yields = 2
  /\ hist.kernelCalls = 3
  /\ lastPaint = now
  /\ lastPaint > hist.trigger

\* ------------------------------------------------------------------ C17
\* C17: the step that writes a chunk changes no entry of the distance array
\* outside [offset + i, offset + i + chunkSize); no other step (poll, top-k
\* call, event, yield, failure) changes the array at all; no step changes
\* the shards, the facet column or the codebook; and at every moment every
\* entry no chunk has written yet holds its initial value.
C17_Frame ==
  /\ [][\A p \in 1..Len(dists) :
          dists'[p] # dists[p] =>
            (pc = "kernel" /\ InChunk(p - 1, Shard, i))]_vars
  /\ [][(pc # "kernel" \/ pc' \in {"kernel", "rejected"}) =>
          dists' = dists]_vars
  /\ [][UNCHANGED << embeddings, firstLetters, codebk, codebkflat >>]_vars
  /\ [](\A p \in 1..Len(dists) : hist.written[p] = 0 => dists[p] = 0)

\* C17's case: after a chunk step and the top-k call, event and yield that
\* followed it, the written chunk holds distances and a chunk not yet
\* processed still holds the initial value.
C17_Witness ==
  /\ pc = "inner"
  /\ hist.yields >= 1
  /\ Len(hist.written) >= 4
  /\ hist.written[1] = 1 /\ dists[1] # 0
  /\ hist.written[Len(dists)] = 0 /\ dists[Len(dists)] = 0

\* ------------------------------------------------------------------ C18
\* The three ways a scan ends.
Finished == pc = "returned" /\ Count("final") = 1
Cancelled == pc = "returned" /\ Count("final") = 0 /\ hist.stopped /\ ~cont
Failed == pc = "rejected" /\ error # "none"

\* The chunks of the shards of the list.
TotalChunks == (TotalItems + env.chunkSize - 1) \div env.chunkSize

\* C18: every scan of a finite shard list with a positive chunkSize ends,
\* and ends in exactly one of three ways: finished (the combined event was
\* delivered), cancelled (the last poll answered "stop"; no combined
\* event), or failed (the caller holds the error); once ended it does
\* nothing more; and it makes no more kernel calls than the list has chunks.
C18_Terminates ==
  /\ <>(Finished \/ Cancelled \/ Failed)
  /\ [](pc \in {"returned", "rejected"} =>
          /\ Finished \/ Cancelled \/ Failed
          /\ ~(Finished /\ Cancelled)
          /\ Failed => Count("final") = 0)
  /\ [](pc \notin {"returned", "rejected"} => Count("final") = 0)
  /\ [][(pc \in {"returned", "rejected"}) => UNCHANGED vars]_vars
  /\ [](hist.kernelCalls <= TotalChunks)

\* C18's case: a scan of three chunks that delivered events was cancelled
\* at its last poll and returned without a combined event.
C18_Witness ==
  /\ Cancelled
  /\ hist.kernelCalls = 3
  /\ TotalChunks = 3
  /\ Count("topk") >= 1

\* ------------------------------------------------------------------ C19
\* A shard whose item count is no multiple of chunkSize.
Ragged(sh) == ItemCount(sh) % env.chunkSize # 0

\* The first index past the tail chunk of a shard.
TailEnd(sh) == sh.offset + ChunksOf(ItemCount(sh), env.chunkSize) * env.chunkSize

\* C19: nothing in the scan tests a shard's item count against chunkSize.
\* Every chunk step makes exactly chunkSize writes, to the consecutive
\* indices from offset + i on, also for the tail chunk of a ragged shard,
\* which fewer than chunkSize items are left for; and when a scan of the
\* whole list has completed, every index from offset + itemCount to the end
\* of a ragged shard's tail chunk that lies in the range of the shard laid
\* out next has been written more than once.
C19_RaggedTailSpills ==
  /\ [][hist'.written # hist.written =>
          /\ pc = "kernel"
          /\ hist'.written = CountWrites
          /\ SumSeq(hist'.written) = SumSeq(hist.written) + env.chunkSize
          /\ dists' = WrittenDists]_vars
  /\ [](Completed =>
          \A c \in 1..Len(embeddings) :
            \A d \in 1..Len(embeddings) :
              (/\ Ragged(embeddings[c])
               /\ ItemCount(embeddings[d]) > 0
               /\ embeddings[d].offset
                    = embeddings[c].offset + ItemCount(embeddings[c]))
                 => \A x \in (embeddings[d].offset)..(TailEnd(embeddings[c]) - 1) :
                      hist.written[x + 1] >= 2)

\* C19's case: a completed scan of a ragged shard and the shard laid out
\* after it, in which an index of the second shard was written twice.
C19_Witness ==
  /\ Completed
  /\ Len(embeddings) = 2
  /\ Ragged(embeddings[1])
  /\ embeddings[2].offset = ItemCount(embeddings[1])
  /\ ItemCount(embeddings[2]) > 0
  /\ hist.written[embeddings[2].offset + 1] = 2

====
